---- MODULE Spec2Model ----
(***************************************************************************)
(* Model of better-commands (src/src/lib.rs): run, run_funcs and           *)
(* run_funcs_with_lines.  One call of one entry point is modelled: the     *)
(* caller's thread (pc), the two threads it spawns (outPc, errPc), and the *)
(* child process with its two pipes of bounded capacity.                   *)
(***************************************************************************)
EXTENDS Integers, Sequences, FiniteSets, TLC

(* ------------------------------ bounds --------------------------------- *)

\* The child writes at most MaxWrites lines in all.
MaxWrites == 3

\* A pipe holds at most PipeCap undelivered lines; a write to a full pipe blocks.
PipeCap == 1

\* Instant::now() never returns more than MaxTime.
MaxTime == 3

(* ------------------------------ values --------------------------------- *)

\* enum LineType { Stdout, Stderr }
LineType == {"Stdout", "Stderr"}

\* The texts a line can hold.
Contents == {"a", "b"}

\* The exit statuses of a child that exits normally.
ExitCodes == {0, 10}

\* The three entry points.
Modes == {"run", "run_funcs", "run_funcs_with_lines"}

\* Option<T>
None == [some |-> FALSE]

Some(v) == [some |-> TRUE, val |-> v]

\* What the child will write: a sequence of (stream, content) pairs.
Write == [to : LineType, content : Contents]

Programs == UNION {[1..n -> Write] : n \in 0..MaxWrites}

\* What a caller-supplied function does with its stream: whether it iterates
\* the lines to end-of-stream or returns at once, which constructor it
\* builds its lines with (run_funcs_with_lines), and whether it unwraps each
\* line (`line.unwrap()`) or takes the items as they come (`for _ in lines`).
Func ==
    {f \in [drains : BOOLEAN, tag : LineType, unwraps : BOOLEAN] :
        ~f.drains => f.unwraps}

VARIABLES
    mode,         \* the entry point called
    pc,           \* the caller's thread
    clock,        \* the last value Instant::now() returned
    prog,         \* child: the writes still to do
    childState,   \* "unspawned", "running", "exited", "signaled"
    childCode,    \* child: its exit status once exited
    wrote,        \* history: the writes the child has done, in order
    outPipe,      \* lines written to stdout and not yet read
    errPipe,      \* lines written to stderr and not yet read
    outOpen,      \* the read end of the stdout pipe is open
    errOpen,      \* the read end of the stderr pipe is open
    stdout_func,  \* the caller's function for stdout (callback modes)
    stderr_func,  \* the caller's function for stderr (callback modes)
    outPc,        \* stdout_thread
    errPc,        \* stderr_thread
    outLines,     \* stdout_thread's Vec<Line>
    errLines,     \* stderr_thread's Vec<Line>
    effects,      \* the side effects of the caller's functions, in order
    calls,        \* how often each caller-supplied function has been invoked
    readFailed,   \* a line that could not be decoded has been read
    start,        \* let start
    end_time,     \* let end
    status,       \* let status
    lines,        \* let mut lines
    reaped,       \* child.wait() has returned
    result        \* the CmdOutput returned

vars == <<mode, pc, clock, prog, childState, childCode, wrote, outPipe, errPipe,
          outOpen, errOpen, stdout_func, stderr_func, outPc, errPc, outLines,
          errLines, effects, calls, readFailed, start, end_time, status, lines,
          reaped, result>>

childVars == <<prog, childState, childCode, wrote>>

pipeVars == <<outPipe, errPipe, outOpen, errOpen>>

funcVars == <<stdout_func, stderr_func>>

histVars == <<calls, readFailed>>

outVars == <<outPc, outLines>>

errVars == <<errPc, errLines>>

mainVars == <<pc, start, end_time, status, lines, reaped, result>>

(* ------------------------------- Line ---------------------------------- *)

\* struct Line { printed_to, time, content }
Line(printed_to, time, content) ==
    [printed_to |-> printed_to, time |-> time, content |-> content]

\* Instant::now(): monotonic, and two calls may return the same instant.
Now == {t \in {clock, clock + 1} : t <= MaxTime}

\* Mutant of lt: the order #[derive(Ord)] gives Line, field by field
\* (printed_to, then time, then content).
lt_derived(a, b) ==
    LET rank(o) == IF o = "Stdout" THEN 0 ELSE 1
        text(c) == IF c = "a" THEN 0 ELSE 1
    IN  \/ rank(a.printed_to) < rank(b.printed_to)
        \/ /\ a.printed_to = b.printed_to
           /\ \/ a.time < b.time
              \/ a.time = b.time /\ text(a.content) < text(b.content)

\* impl PartialOrd for Line: fn lt
lt(a, b) == a.time < b.time

\* impl PartialOrd for Line: fn gt
gt(a, b) == a.time > b.time

\* impl PartialOrd for Line: fn partial_cmp
partial_cmp(a, b) ==
    IF lt(a, b) THEN "Less" ELSE IF gt(a, b) THEN "Greater" ELSE "Equal"

RECURSIVE insert_tail_unstable(_, _)
\* Mutant of insert_tail: x also moves past the elements it is equal to.
insert_tail_unstable(s, x) ==
    IF s = <<>> THEN <<x>>
    ELSE IF ~lt(s[Len(s)], x)
         THEN Append(insert_tail_unstable(SubSeq(s, 1, Len(s) - 1), x), s[Len(s)])
         ELSE Append(s, x)

RECURSIVE insert_tail(_, _)
\* One step of the insertion sort: x moves left past every element it is
\* less than.
insert_tail(s, x) ==
    IF s = <<>> THEN <<x>>
    ELSE IF lt(x, s[Len(s)])
         THEN Append(insert_tail(SubSeq(s, 1, Len(s) - 1), x), s[Len(s)])
         ELSE Append(s, x)

\* Mutant of sort: the lines are left in the order of the concatenation.
sort_unsorted(s) == s

RECURSIVE sort(_)
\* lines.sort(): the stable sort of the slice, which orders by T::lt.
sort(s) ==
    IF s = <<>> THEN <<>>
    ELSE insert_tail(sort(SubSeq(s, 1, Len(s) - 1)), s[Len(s)])

\* Line::from_stdout / Line::from_stderr, by the constructor's tag.
from_tag(tag, content, t) == Line(tag, t, content)

(* ----------------------------- CmdOutput ------------------------------- *)

\* CmdOutput::lines
CmdLines(r) == r.lines

\* CmdOutput::stdout
CmdStdout(r) ==
    IF r.lines.some
    THEN Some(SelectSeq(r.lines.val, LAMBDA l : l.printed_to = "Stdout"))
    ELSE None

\* Mutant of CmdStderr: the filter of CmdStdout, copied unchanged.
CmdStderr_as_stdout(r) ==
    IF r.lines.some
    THEN Some(SelectSeq(r.lines.val, LAMBDA l : l.printed_to = "Stdout"))
    ELSE None

\* CmdOutput::stderr
CmdStderr(r) ==
    IF r.lines.some
    THEN Some(SelectSeq(r.lines.val, LAMBDA l : l.printed_to = "Stderr"))
    ELSE None

\* Mutant of code: a child ended by a signal is reported as status 0.
code_or_zero(state, c) == IF state = "exited" THEN Some(c) ELSE Some(0)

\* ExitStatus::code(): the status of a normal exit, None after a signal.
code(state, c) == IF state = "exited" THEN Some(c) ELSE None

\* Mutant of ResultLines: run_funcs returns an empty sequence of lines.
ResultLines_empty(m, ls) == IF m = "run_funcs" THEN Some(<<>>) ELSE Some(ls)

\* The lines field each entry point builds its CmdOutput with.
ResultLines(m, ls) == IF m = "run_funcs" THEN None ELSE Some(ls)

(* -------------------------------- Init --------------------------------- *)

DefaultFunc == [drains |-> TRUE, tag |-> "Stdout", unwraps |-> TRUE]

Init ==
    /\ mode \in Modes
    /\ pc = "start"
    /\ clock = 0
    /\ prog \in Programs
    /\ childState = "unspawned"
    /\ childCode = 0
    /\ wrote = <<>>
    /\ outPipe = <<>>
    /\ errPipe = <<>>
    /\ outOpen = FALSE
    /\ errOpen = FALSE
    /\ stdout_func \in IF mode = "run" THEN {DefaultFunc}
                       ELSE IF mode = "run_funcs" THEN {f \in Func : f.tag = "Stdout"}
                       ELSE {f \in Func : f.tag = "Stdout" /\ f.unwraps}
    /\ stderr_func \in IF mode = "run" THEN {DefaultFunc}
                       ELSE IF mode = "run_funcs" THEN {f \in Func : f.tag = "Stdout"}
                       ELSE {f \in Func : f.unwraps}
    /\ outPc = "unstarted"
    /\ errPc = "unstarted"
    /\ outLines = <<>>
    /\ errLines = <<>>
    /\ effects = <<>>
    /\ calls = [stdout |-> 0, stderr |-> 0]
    /\ readFailed = FALSE
    /\ start = 0
    /\ end_time = 0
    /\ status = None
    /\ lines = <<>>
    /\ reaped = FALSE
    /\ result = None

(* ------------------------------ the child ------------------------------ *)

\* The child writes its next line: to a pipe whose read end is open and that
\* has room. A write to a full pipe blocks (the action is not enabled).
ChildWrite ==
    /\ childState = "running"
    /\ prog # <<>>
    /\ LET w == Head(prog) IN
         /\ \/ /\ w.to = "Stdout"
               /\ outOpen
               /\ Len(outPipe) < PipeCap
               /\ outPipe' = Append(outPipe, w.content)
               /\ UNCHANGED errPipe
            \/ /\ w.to = "Stderr"
               /\ errOpen
               /\ Len(errPipe) < PipeCap
               /\ errPipe' = Append(errPipe, w.content)
               /\ UNCHANGED outPipe
         /\ wrote' = Append(wrote, w)
    /\ prog' = Tail(prog)
    /\ UNCHANGED <<mode, clock, childState, childCode, outOpen, errOpen, funcVars, histVars,
                   outVars, errVars, effects, mainVars>>

\* The child writes to a pipe whose read end was dropped: SIGPIPE ends it.
ChildSigpipe ==
    /\ childState = "running"
    /\ prog # <<>>
    /\ \/ Head(prog).to = "Stdout" /\ ~outOpen
       \/ Head(prog).to = "Stderr" /\ ~errOpen
    /\ childState' = "signaled"
    /\ prog' = <<>>
    /\ UNCHANGED <<mode, clock, childCode, wrote, pipeVars, funcVars, histVars, outVars,
                   errVars, effects, mainVars>>

\* The child has written everything and exits with a status.
ChildExit ==
    /\ childState = "running"
    /\ prog = <<>>
    /\ childState' = "exited"
    /\ \E c \in ExitCodes : childCode' = c
    /\ UNCHANGED <<mode, clock, prog, wrote, pipeVars, funcVars, histVars, outVars, errVars,
                   effects, mainVars>>

\* A signal from outside ends the child, wherever it is.
ChildKilled ==
    /\ childState = "running"
    /\ childState' = "signaled"
    /\ prog' = <<>>
    /\ UNCHANGED <<mode, clock, childCode, wrote, pipeVars, funcVars, histVars, outVars,
                   errVars, effects, mainVars>>

\* The write ends of both pipes are closed once the child is gone.
ChildGone == childState \in {"exited", "signaled"}

(* ------------------------- the threads of run -------------------------- *)

\* Mutant of run_stdout_line: stdout is read only once stderr has been read
\* to its end (the two streams drained one after the other).
run_stdout_line_serial ==
    /\ mode = "run"
    /\ outPc = "running"
    /\ errPc = "done"
    /\ outPipe # <<>>
    /\ \E t \in Now :
         /\ clock' = t
         /\ outLines' = Append(outLines, Line("Stdout", t, Head(outPipe)))
    /\ outPipe' = Tail(outPipe)
    /\ UNCHANGED <<mode, childVars, errPipe, outOpen, errOpen, funcVars, histVars, outPc,
                   errVars, effects, mainVars>>

\* stdout_thread of run: one turn of `for line in stdout_lines`.
run_stdout_line ==
    /\ mode = "run"
    /\ outPc = "running"
    /\ outPipe # <<>>
    /\ \E t \in Now :
         /\ clock' = t
         /\ outLines' = Append(outLines, Line("Stdout", t, Head(outPipe)))
    /\ outPipe' = Tail(outPipe)
    /\ UNCHANGED <<mode, childVars, errPipe, outOpen, errOpen, funcVars, histVars, outPc,
                   errVars, effects, mainVars>>

\* stdout_thread of run reads a line that is not valid text: `line.unwrap()`
\* panics, and the thread's reader and its lines are dropped.
run_stdout_unwrap_panics ==
    /\ mode = "run"
    /\ outPc = "running"
    /\ outPipe # <<>>
    /\ readFailed' = TRUE
    /\ outPc' = "panicked"
    /\ outLines' = <<>>
    /\ outOpen' = FALSE
    /\ outPipe' = <<>>
    /\ UNCHANGED <<mode, clock, childVars, errPipe, errOpen, funcVars, calls,
                   errVars, effects, mainVars>>

\* stdout_thread of run: end of stream, `return lines`.
run_stdout_return ==
    /\ mode = "run"
    /\ outPc = "running"
    /\ outPipe = <<>>
    /\ ChildGone
    /\ outPc' = "done"
    /\ outOpen' = FALSE
    /\ UNCHANGED <<mode, clock, childVars, outPipe, errPipe, errOpen, funcVars, histVars,
                   outLines, errVars, effects, mainVars>>

\* stderr_thread of run: one turn of `for line in stderr_lines`.
run_stderr_line ==
    /\ mode = "run"
    /\ errPc = "running"
    /\ errPipe # <<>>
    /\ \E t \in Now :
         /\ clock' = t
         /\ errLines' = Append(errLines, Line("Stderr", t, Head(errPipe)))
    /\ errPipe' = Tail(errPipe)
    /\ UNCHANGED <<mode, childVars, outPipe, outOpen, errOpen, funcVars, histVars, errPc,
                   outVars, effects, mainVars>>

\* stderr_thread of run reads a line that is not valid text: after
\* `let time = Instant::now()`, `line.unwrap()` panics.
run_stderr_unwrap_panics ==
    /\ mode = "run"
    /\ errPc = "running"
    /\ errPipe # <<>>
    /\ \E t \in Now : clock' = t
    /\ readFailed' = TRUE
    /\ errPc' = "panicked"
    /\ errLines' = <<>>
    /\ errOpen' = FALSE
    /\ errPipe' = <<>>
    /\ UNCHANGED <<mode, childVars, outPipe, outOpen, funcVars, calls, outVars,
                   effects, mainVars>>

\* stderr_thread of run: end of stream, `return lines`.
run_stderr_return ==
    /\ mode = "run"
    /\ errPc = "running"
    /\ errPipe = <<>>
    /\ ChildGone
    /\ errPc' = "done"
    /\ errOpen' = FALSE
    /\ UNCHANGED <<mode, clock, childVars, outPipe, errPipe, outOpen, funcVars, histVars,
                   errLines, outVars, effects, mainVars>>

(* ------------------- the caller-supplied functions --------------------- *)

\* Mutant of stdout_func_line: stdout_func is called anew for each line.
stdout_func_line_called ==
    /\ mode # "run"
    /\ outPc = "running"
    /\ stdout_func.drains
    /\ outPipe # <<>>
    /\ effects' = Append(effects, "stdout")
    /\ calls' = [calls EXCEPT !.stdout = calls.stdout + 1]
    /\ IF mode = "run_funcs_with_lines"
       THEN \E t \in Now :
              /\ clock' = t
              /\ outLines' = Append(outLines, from_tag(stdout_func.tag, Head(outPipe), t))
       ELSE UNCHANGED <<clock, outLines>>
    /\ outPipe' = Tail(outPipe)
    /\ UNCHANGED <<mode, childVars, errPipe, outOpen, errOpen, funcVars, readFailed, outPc,
                   errVars, mainVars>>

\* stdout_func, one turn of its loop over stdout_lines: its side effect, and
\* in run_funcs_with_lines the Line it pushes.
stdout_func_line ==
    /\ mode # "run"
    /\ outPc = "running"
    /\ stdout_func.drains
    /\ outPipe # <<>>
    /\ effects' = Append(effects, "stdout")
    /\ IF mode = "run_funcs_with_lines"
       THEN \E t \in Now :
              /\ clock' = t
              /\ outLines' = Append(outLines, from_tag(stdout_func.tag, Head(outPipe), t))
       ELSE UNCHANGED <<clock, outLines>>
    /\ outPipe' = Tail(outPipe)
    /\ UNCHANGED <<mode, childVars, errPipe, outOpen, errOpen, funcVars, histVars, outPc,
                   errVars, mainVars>>

\* stdout_func gets an Err item, a line that is not valid text: a function
\* that unwraps panics; one that does not look at the item has its side
\* effect as for any line.
stdout_func_err ==
    /\ mode # "run"
    /\ outPc = "running"
    /\ stdout_func.drains
    /\ outPipe # <<>>
    /\ readFailed' = TRUE
    /\ IF stdout_func.unwraps
       THEN /\ outPc' = "panicked"
            /\ outLines' = <<>>
            /\ outOpen' = FALSE
            /\ outPipe' = <<>>
            /\ UNCHANGED effects
       ELSE /\ effects' = Append(effects, "stdout")
            /\ outPipe' = Tail(outPipe)
            /\ UNCHANGED <<outPc, outLines, outOpen>>
    /\ UNCHANGED <<mode, clock, childVars, errPipe, errOpen, funcVars, calls,
                   errVars, mainVars>>

\* stdout_func returns: at end of stream, or at once when it does not read.
\* Its Lines value is dropped, which closes the read end of the pipe.
stdout_func_return ==
    /\ mode # "run"
    /\ outPc = "running"
    /\ \/ ~stdout_func.drains
       \/ outPipe = <<>> /\ ChildGone
    /\ outPc' = "done"
    /\ outOpen' = FALSE
    /\ outPipe' = <<>>
    /\ UNCHANGED <<mode, clock, childVars, errPipe, errOpen, funcVars, histVars, outLines,
                   errVars, effects, mainVars>>

\* Mutant of stderr_func_line: stderr_func is run only once stdout_func has
\* returned (the two functions called one after the other).
stderr_func_line_serial ==
    /\ mode # "run"
    /\ errPc = "running"
    /\ outPc = "done"
    /\ stderr_func.drains
    /\ errPipe # <<>>
    /\ effects' = Append(effects, "stderr")
    /\ IF mode = "run_funcs_with_lines"
       THEN \E t \in Now :
              /\ clock' = t
              /\ errLines' = Append(errLines, from_tag(stderr_func.tag, Head(errPipe), t))
       ELSE UNCHANGED <<clock, errLines>>
    /\ errPipe' = Tail(errPipe)
    /\ UNCHANGED <<mode, childVars, outPipe, outOpen, errOpen, funcVars, histVars, errPc,
                   outVars, mainVars>>

\* stderr_func, one turn of its loop over stderr_lines.
stderr_func_line ==
    /\ mode # "run"
    /\ errPc = "running"
    /\ stderr_func.drains
    /\ errPipe # <<>>
    /\ effects' = Append(effects, "stderr")
    /\ IF mode = "run_funcs_with_lines"
       THEN \E t \in Now :
              /\ clock' = t
              /\ errLines' = Append(errLines, from_tag(stderr_func.tag, Head(errPipe), t))
       ELSE UNCHANGED <<clock, errLines>>
    /\ errPipe' = Tail(errPipe)
    /\ UNCHANGED <<mode, childVars, outPipe, outOpen, errOpen, funcVars, histVars, errPc,
                   outVars, mainVars>>

\* stderr_func gets an Err item.
stderr_func_err ==
    /\ mode # "run"
    /\ errPc = "running"
    /\ stderr_func.drains
    /\ errPipe # <<>>
    /\ readFailed' = TRUE
    /\ IF stderr_func.unwraps
       THEN /\ errPc' = "panicked"
            /\ errLines' = <<>>
            /\ errOpen' = FALSE
            /\ errPipe' = <<>>
            /\ UNCHANGED effects
       ELSE /\ effects' = Append(effects, "stderr")
            /\ errPipe' = Tail(errPipe)
            /\ UNCHANGED <<errPc, errLines, errOpen>>
    /\ UNCHANGED <<mode, clock, childVars, outPipe, outOpen, funcVars, calls,
                   outVars, mainVars>>

\* stderr_func returns.
stderr_func_return ==
    /\ mode # "run"
    /\ errPc = "running"
    /\ \/ ~stderr_func.drains
       \/ errPipe = <<>> /\ ChildGone
    /\ errPc' = "done"
    /\ errOpen' = FALSE
    /\ errPipe' = <<>>
    /\ UNCHANGED <<mode, clock, childVars, outPipe, outOpen, funcVars, histVars, errLines,
                   outVars, effects, mainVars>>

(* ------------------------ the caller's thread -------------------------- *)

\* `let start = Instant::now()` and a spawn that succeeds: the child runs
\* and the caller holds the read ends of both pipes.
Spawned(next) ==
    /\ pc = "start"
    /\ \E t \in Now :
         /\ clock' = t
         /\ start' = t
    /\ childState' = "running"
    /\ outOpen' = TRUE
    /\ errOpen' = TRUE
    /\ pc' = next
    /\ UNCHANGED <<mode, prog, childCode, wrote, outPipe, errPipe, funcVars, histVars,
                   outVars, errVars, effects, end_time, status, lines, result, reaped>>

\* Mutant of SpawnFailed: the failure of the spawn is not looked at and the
\* caller goes on to start the readers.
SpawnFailed_ignored ==
    /\ pc = "start"
    /\ \E t \in Now :
         /\ clock' = t
         /\ start' = t
    /\ pc' = "spawn_stdout"
    /\ UNCHANGED <<mode, childVars, pipeVars, funcVars, histVars, outVars, errVars,
                   effects, end_time, status, lines, result, reaped>>

\* `let start = Instant::now()` and a spawn that fails: `.spawn().unwrap()`
\* panics.
SpawnFailed ==
    /\ pc = "start"
    /\ \E t \in Now :
         /\ clock' = t
         /\ start' = t
    /\ pc' = "panicked"
    /\ UNCHANGED <<mode, childVars, pipeVars, funcVars, histVars, outVars, errVars, effects,
                   end_time, status, lines, result, reaped>>

\* thread::spawn of stdout_thread; in the callback modes the thread is one
\* call of stdout_func on the lines of the stream.
SpawnStdoutThread(next) ==
    /\ outPc' = "running"
    /\ calls' = IF mode = "run" THEN calls
                ELSE [calls EXCEPT !.stdout = calls.stdout + 1]
    /\ pc' = next
    /\ UNCHANGED <<mode, clock, childVars, pipeVars, funcVars, readFailed, outLines,
                   errVars, effects, start, end_time, status, lines, result, reaped>>

\* thread::spawn of stderr_thread; in the callback modes the thread is one
\* call of stderr_func on the lines of the stream.
SpawnStderrThread(next) ==
    /\ errPc' = "running"
    /\ calls' = IF mode = "run" THEN calls
                ELSE [calls EXCEPT !.stderr = calls.stderr + 1]
    /\ pc' = next
    /\ UNCHANGED <<mode, clock, childVars, pipeVars, funcVars, readFailed, errLines,
                   outVars, effects, start, end_time, status, lines, result, reaped>>

\* Mutant of Wait: the instant read after the wait is also taken as the start.
Wait_restarts(next) ==
    /\ ChildGone
    /\ status' = code(childState, childCode)
    /\ reaped' = TRUE
    /\ \E t \in Now :
         /\ clock' = t
         /\ end_time' = t
         /\ start' = t
    /\ pc' = next
    /\ UNCHANGED <<mode, childVars, pipeVars, funcVars, histVars, outVars, errVars, effects,
                   lines, result>>

\* `let status = child.wait().unwrap().code(); let end = Instant::now();`
\* wait returns once the child is gone.
Wait(next) ==
    /\ ChildGone
    /\ status' = code(childState, childCode)
    /\ reaped' = TRUE
    /\ \E t \in Now :
         /\ clock' = t
         /\ end_time' = t
    /\ pc' = next
    /\ UNCHANGED <<mode, childVars, pipeVars, funcVars, histVars, outVars, errVars, effects,
                   start, lines, result>>

\* Mutant of JoinStdoutLines: the join takes what a panicked thread left.
JoinStdoutLines_lenient(next) ==
    /\ outPc \in {"done", "panicked"}
    /\ lines' = outLines
    /\ pc' = next
    /\ UNCHANGED <<mode, clock, childVars, pipeVars, funcVars, histVars, outVars,
                   errVars, effects, start, end_time, status, result, reaped>>

\* `let mut lines = stdout_thread.join().unwrap();`
JoinStdoutLines(next) ==
    /\ outPc = "done"
    /\ lines' = outLines
    /\ pc' = next
    /\ UNCHANGED <<mode, clock, childVars, pipeVars, funcVars, histVars, outVars, errVars,
                   effects, start, end_time, status, result, reaped>>

\* `stdout_thread.join().unwrap()` when stdout_thread has panicked: the
\* caller panics.
join_stdout_panics ==
    /\ pc = "join_stdout"
    /\ outPc = "panicked"
    /\ pc' = "panicked"
    /\ UNCHANGED <<mode, clock, childVars, pipeVars, funcVars, histVars, outVars,
                   errVars, effects, start, end_time, status, lines, result, reaped>>

\* `stderr_thread.join().unwrap()` when stderr_thread has panicked.
join_stderr_panics ==
    /\ pc = "join_stderr"
    /\ errPc = "panicked"
    /\ pc' = "panicked"
    /\ UNCHANGED <<mode, clock, childVars, pipeVars, funcVars, histVars, outVars,
                   errVars, effects, start, end_time, status, lines, result, reaped>>

\* Mutant of JoinStderrLines: the stderr lines are put before the stdout lines.
JoinStderrLines_prepend(next) ==
    /\ errPc = "done"
    /\ lines' = errLines \o lines
    /\ pc' = next
    /\ UNCHANGED <<mode, clock, childVars, pipeVars, funcVars, histVars, outVars, errVars,
                   effects, start, end_time, status, result, reaped>>

\* Mutant of JoinStderrLines: every line that came from the stderr thread is
\* given the origin Stderr when it is appended.
JoinStderrLines_retagged(next) ==
    /\ errPc = "done"
    /\ lines' = lines \o [i \in 1..Len(errLines) |->
                            Line("Stderr", errLines[i].time, errLines[i].content)]
    /\ pc' = next
    /\ UNCHANGED <<mode, clock, childVars, pipeVars, funcVars, histVars, outVars, errVars,
                   effects, start, end_time, status, result, reaped>>

\* `lines.append(&mut stderr_thread.join().unwrap());`
JoinStderrLines(next) ==
    /\ errPc = "done"
    /\ lines' = lines \o errLines
    /\ pc' = next
    /\ UNCHANGED <<mode, clock, childVars, pipeVars, funcVars, histVars, outVars, errVars,
                   effects, start, end_time, status, result, reaped>>

\* Mutant of SortLines: the call of lines.sort() is left out.
SortLines_skipped(next) ==
    /\ pc' = next
    /\ UNCHANGED <<mode, clock, childVars, pipeVars, funcVars, histVars, outVars, errVars,
                   effects, start, end_time, status, lines, result, reaped>>

\* `lines.sort();`
SortLines(next) ==
    /\ lines' = sort(lines)
    /\ pc' = next
    /\ UNCHANGED <<mode, clock, childVars, pipeVars, funcVars, histVars, outVars, errVars,
                   effects, start, end_time, status, result, reaped>>

\* Mutant of Return: the duration is taken from end to start.
Return_swapped ==
    /\ pc = "return"
    /\ result' = Some([lines       |-> ResultLines(mode, lines),
                       status_code |-> status,
                       start_time  |-> start,
                       end_time    |-> end_time,
                       duration    |-> start - end_time])
    /\ pc' = "done"
    /\ UNCHANGED <<mode, clock, childVars, pipeVars, funcVars, histVars, outVars, errVars,
                   effects, start, end_time, status, lines, reaped>>

\* `return CmdOutput { lines, status_code, start_time, end_time, duration }`
Return ==
    /\ pc = "return"
    /\ result' = Some([lines       |-> ResultLines(mode, lines),
                       status_code |-> status,
                       start_time  |-> start,
                       end_time    |-> end_time,
                       duration    |-> end_time - start])
    /\ pc' = "done"
    /\ UNCHANGED <<mode, clock, childVars, pipeVars, funcVars, histVars, outVars, errVars,
                   effects, start, end_time, status, lines, reaped>>

(* run *)

run_spawn == mode = "run" /\ Spawned("spawn_stdout")

run_spawn_stdout ==
    mode = "run" /\ pc = "spawn_stdout" /\ SpawnStdoutThread("spawn_stderr")

run_spawn_stderr ==
    mode = "run" /\ pc = "spawn_stderr" /\ SpawnStderrThread("wait")

run_wait == mode = "run" /\ pc = "wait" /\ Wait("join_stdout")

run_join_stdout ==
    mode = "run" /\ pc = "join_stdout" /\ JoinStdoutLines("join_stderr")

run_join_stderr ==
    mode = "run" /\ pc = "join_stderr" /\ JoinStderrLines("sort")

run_sort == mode = "run" /\ pc = "sort" /\ SortLines("return")

(* run_funcs *)

run_funcs_spawn == mode = "run_funcs" /\ Spawned("spawn_stdout")

run_funcs_spawn_stdout ==
    mode = "run_funcs" /\ pc = "spawn_stdout" /\ SpawnStdoutThread("spawn_stderr")

run_funcs_spawn_stderr ==
    mode = "run_funcs" /\ pc = "spawn_stderr" /\ SpawnStderrThread("wait")

run_funcs_wait == mode = "run_funcs" /\ pc = "wait" /\ Wait("join_stdout")

\* `stdout_thread.join().unwrap();`
run_funcs_join_stdout ==
    /\ mode = "run_funcs"
    /\ pc = "join_stdout"
    /\ outPc = "done"
    /\ pc' = "join_stderr"
    /\ UNCHANGED <<mode, clock, childVars, pipeVars, funcVars, histVars, outVars, errVars,
                   effects, start, end_time, status, lines, result, reaped>>

\* Mutant of run_funcs_join_stderr: stderr_thread is not joined.
run_funcs_join_stderr_skipped ==
    /\ mode = "run_funcs"
    /\ pc = "join_stderr"
    /\ pc' = "return"
    /\ UNCHANGED <<mode, clock, childVars, pipeVars, funcVars, histVars, outVars, errVars,
                   effects, start, end_time, status, lines, result, reaped>>

\* `stderr_thread.join().unwrap();`
run_funcs_join_stderr ==
    /\ mode = "run_funcs"
    /\ pc = "join_stderr"
    /\ errPc = "done"
    /\ pc' = "return"
    /\ UNCHANGED <<mode, clock, childVars, pipeVars, funcVars, histVars, outVars, errVars,
                   effects, start, end_time, status, lines, result, reaped>>

(* run_funcs_with_lines *)

run_funcs_with_lines_spawn ==
    mode = "run_funcs_with_lines" /\ Spawned("spawn_stdout")

run_funcs_with_lines_spawn_stdout ==
    /\ mode = "run_funcs_with_lines"
    /\ pc = "spawn_stdout"
    /\ SpawnStdoutThread("spawn_stderr")

run_funcs_with_lines_spawn_stderr ==
    /\ mode = "run_funcs_with_lines"
    /\ pc = "spawn_stderr"
    /\ SpawnStderrThread("join_stdout")

run_funcs_with_lines_join_stdout ==
    /\ mode = "run_funcs_with_lines"
    /\ pc = "join_stdout"
    /\ JoinStdoutLines("join_stderr")

run_funcs_with_lines_join_stderr ==
    /\ mode = "run_funcs_with_lines"
    /\ pc = "join_stderr"
    /\ JoinStderrLines("sort")

run_funcs_with_lines_sort ==
    mode = "run_funcs_with_lines" /\ pc = "sort" /\ SortLines("wait")

run_funcs_with_lines_wait ==
    mode = "run_funcs_with_lines" /\ pc = "wait" /\ Wait("return")

(* ---------------------------- specification ---------------------------- *)

Child == ChildWrite \/ ChildSigpipe \/ ChildExit \/ ChildKilled

StdoutThread ==
    \/ run_stdout_line
    \/ run_stdout_unwrap_panics
    \/ run_stdout_return
    \/ stdout_func_line
    \/ stdout_func_err
    \/ stdout_func_return

StderrThread ==
    \/ run_stderr_line
    \/ run_stderr_unwrap_panics
    \/ run_stderr_return
    \/ stderr_func_line
    \/ stderr_func_err
    \/ stderr_func_return

run ==
    \/ run_spawn
    \/ run_spawn_stdout
    \/ run_spawn_stderr
    \/ run_wait
    \/ run_join_stdout
    \/ run_join_stderr
    \/ run_sort

run_funcs ==
    \/ run_funcs_spawn
    \/ run_funcs_spawn_stdout
    \/ run_funcs_spawn_stderr
    \/ run_funcs_wait
    \/ run_funcs_join_stdout
    \/ run_funcs_join_stderr

run_funcs_with_lines ==
    \/ run_funcs_with_lines_spawn
    \/ run_funcs_with_lines_spawn_stdout
    \/ run_funcs_with_lines_spawn_stderr
    \/ run_funcs_with_lines_join_stdout
    \/ run_funcs_with_lines_join_stderr
    \/ run_funcs_with_lines_sort
    \/ run_funcs_with_lines_wait

JoinPanics == join_stdout_panics \/ join_stderr_panics

Caller ==
    run \/ run_funcs \/ run_funcs_with_lines \/ SpawnFailed \/ JoinPanics \/ Return

Next == Child \/ StdoutThread \/ StderrThread \/ Caller

Spec == Init /\ [][Next]_vars

\* The scheduler runs every thread that can take a step, and the child runs
\* whenever it is not blocked on a write. A signal from outside is not owed,
\* and neither is a line that cannot be decoded: a thread that can read is
\* owed a read, not a failing one.
Fairness ==
    /\ WF_vars(ChildWrite \/ ChildSigpipe \/ ChildExit)
    /\ WF_vars(run_stdout_line \/ run_stdout_return \/ stdout_func_line \/ stdout_func_return)
    /\ WF_vars(run_stderr_line \/ run_stderr_return \/ stderr_func_line \/ stderr_func_return)
    /\ WF_vars(run \/ run_funcs \/ run_funcs_with_lines \/ JoinPanics \/ Return)

FairSpec == Spec /\ Fairness

(* ------------------------------- claims -------------------------------- *)

\* The CmdOutput has been returned.
Returned == result.some

\* The line sequence of the returned CmdOutput (when it carries one).
Aggregate == result.val.lines.val

\* The contents the child wrote to one stream, in the order it wrote them.
WroteTo(stream) ==
    LET ws == SelectSeq(wrote, LAMBDA w : w.to = stream)
    IN  [i \in 1..Len(ws) |-> ws[i].content]

ContentsOf(ls) == [i \in 1..Len(ls) |-> ls[i].content]

NonDecreasing(ls) == \A i, j \in 1..Len(ls) : i < j => ls[i].time <= ls[j].time

DistinctTimes(ls) == \A i, j \in 1..Len(ls) : i # j => ls[i].time # ls[j].time

\* C1: in collect mode (run), when the N + M lines the child wrote to stdout
\* and stderr were captured with pairwise distinct timestamps, lines() has
\* exactly N + M lines and is non-decreasing in timestamp.
C1_LengthAndOrder ==
    (Returned /\ mode = "run" /\ DistinctTimes(Aggregate)) =>
        /\ Len(Aggregate) = Len(WroteTo("Stdout")) + Len(WroteTo("Stderr"))
        /\ NonDecreasing(Aggregate)

\* A run that captured lines of both streams at distinct instants, which the
\* sort had to reorder.
C1_Witness ==
    /\ Returned
    /\ mode = "run"
    /\ DistinctTimes(Aggregate)
    /\ Len(WroteTo("Stdout")) >= 1
    /\ Len(WroteTo("Stderr")) >= 2
    /\ Aggregate # outLines \o errLines

\* C2: in collect mode (run), stdout() holds exactly the lines the child
\* wrote to stdout, in the order it wrote them, and stderr() those it wrote
\* to stderr, also when lines of a stream share a timestamp.
C2_StreamOrder ==
    (Returned /\ mode = "run") =>
        /\ ContentsOf(CmdStdout(result.val).val) = WroteTo("Stdout")
        /\ ContentsOf(CmdStderr(result.val).val) = WroteTo("Stderr")

\* A run whose stdout lines "b", "a" were captured at one instant, with a
\* stderr line captured too.
C2_Witness ==
    /\ Returned
    /\ mode = "run"
    /\ WroteTo("Stdout") = <<"b", "a">>
    /\ Len(WroteTo("Stderr")) = 1
    /\ outLines[1].time = outLines[2].time

\* C3: once the child runs, if both readers read their stream to its end the
\* call does not deadlock, however much the child writes to one pipe of
\* bounded capacity: the child exits, both readers finish and the call
\* returns its result, in each of the three modes (unless a line that cannot
\* be decoded is read, which is the failure of C12).
C3_NoDeadlock ==
    (childState = "running" /\ stdout_func.drains /\ stderr_func.drains)
        ~> \/ Returned /\ pc = "done" /\ ChildGone /\ outPc = "done" /\ errPc = "done"
           \/ readFailed

\* A call that returned after the child wrote more than a pipe holds to
\* stdout, and nothing to stderr, and exited.
C3_Witness ==
    /\ Returned
    /\ mode = "run_funcs_with_lines"
    /\ stdout_func.drains /\ stderr_func.drains
    /\ Len(WroteTo("Stdout")) > PipeCap
    /\ WroteTo("Stderr") = <<>>
    /\ childState = "exited"

\* C4: a CmdOutput of run_funcs has lines() = None, and so stdout() and
\* stderr() None, never an empty sequence; a CmdOutput of run or of
\* run_funcs_with_lines has Some sequence, also when nothing was printed.
C4_LinesAbsentIffCallback ==
    Returned =>
        /\ (CmdLines(result.val) = None) <=> (mode = "run_funcs")
        /\ mode = "run_funcs" =>
              /\ CmdStdout(result.val) = None
              /\ CmdStderr(result.val) = None
        /\ mode # "run_funcs" =>
              /\ CmdLines(result.val).some
              /\ CmdStdout(result.val).some
              /\ CmdStderr(result.val).some
              /\ wrote = <<>> => CmdLines(result.val) = Some(<<>>)

\* A run_funcs call that returned after both functions handled lines.
C4_Witness ==
    /\ Returned
    /\ mode = "run_funcs"
    /\ CmdLines(result.val) = None
    /\ Len(effects) >= 2

\* The number of side effects a caller-supplied function has had.
EffectsOf(name) == Len(SelectSeq(effects, LAMBDA e : e = name))

\* C5: in each mode the CmdOutput is returned only after stdout_thread and
\* stderr_thread have finished and the child has been waited for; in the
\* callback modes a function that reads its stream has by then had its side
\* effect for every line the child wrote to that stream.
C5_ReturnAfterAll ==
    Returned =>
        /\ outPc = "done"
        /\ errPc = "done"
        /\ reaped
        /\ ChildGone
        /\ mode # "run" =>
              /\ stdout_func.drains => EffectsOf("stdout") = Len(WroteTo("Stdout"))
              /\ stderr_func.drains => EffectsOf("stderr") = Len(WroteTo("Stderr"))

\* A run_funcs call that returned, the child having exited before either
\* function had finished its lines.
C5_Witness ==
    /\ Returned
    /\ mode = "run_funcs"
    /\ effects = <<"stderr", "stdout", "stderr">>

\* C10: in every mode status_code is the child's exit status when it exited
\* normally and None when a signal ended it.
C10_StatusCode ==
    Returned =>
        /\ childState = "exited" => result.val.status_code = Some(childCode)
        /\ childState = "signaled" => result.val.status_code = None

\* A run whose child was ended by a signal after it had written a line.
C10_Witness ==
    /\ Returned
    /\ mode = "run"
    /\ childState = "signaled"
    /\ result.val.status_code = None
    /\ wrote # <<>>

\* The lines of ls captured at instant t, in their order in ls.
At(ls, t) == SelectSeq(ls, LAMBDA l : l.time = t)

\* C6: in every mode that returns lines, the lines that share a timestamp
\* keep the order they had in the concatenation (stdout_thread's lines, then
\* stderr_thread's); so in run, of a stdout line and a stderr line with one
\* timestamp the stdout line comes first.
C6_TiesKeepConcatOrder ==
    (Returned /\ mode # "run_funcs") =>
        /\ \A t \in 0..MaxTime : At(Aggregate, t) = At(outLines \o errLines, t)
        /\ mode = "run" =>
              \A i, j \in 1..Len(Aggregate) :
                  (/\ i < j
                   /\ Aggregate[i].time = Aggregate[j].time
                   /\ Aggregate[j].printed_to = "Stdout")
                      => Aggregate[i].printed_to = "Stdout"

\* A run with a stdout line and a stderr line captured at one instant, and
\* a later stdout line that the sort moved behind the stderr line.
C6_Witness ==
    /\ Returned
    /\ mode = "run"
    /\ Len(Aggregate) = 3
    /\ Aggregate[1].printed_to = "Stdout"
    /\ Aggregate[2].printed_to = "Stderr"
    /\ Aggregate[3].printed_to = "Stdout"
    /\ Aggregate[1].time = Aggregate[2].time
    /\ Aggregate[2].time < Aggregate[3].time

\* C7: the sort of the aggregate orders lines by timestamp alone: no line of
\* the result has a later timestamp than a line after it, whatever the
\* origins and the contents of the two lines.
C7_OrderByTimestampOnly ==
    (Returned /\ mode # "run_funcs") =>
        \A i, j \in 1..Len(Aggregate) : i < j => ~(Aggregate[j].time < Aggregate[i].time)

\* A run whose first line is a stderr line "b" and whose second line, later,
\* is a stdout line "a": the order of the origins and the order of the
\* contents are both the reverse of the order of the timestamps.
C7_Witness ==
    /\ Returned
    /\ mode = "run"
    /\ Len(Aggregate) >= 2
    /\ Aggregate[1] # Aggregate[2]
    /\ Aggregate[1].printed_to = "Stderr" /\ Aggregate[1].content = "b"
    /\ Aggregate[2].printed_to = "Stdout" /\ Aggregate[2].content = "a"
    /\ Aggregate[1].time < Aggregate[2].time

\* The sequences that hold the elements of s in another order.
Reorderings(s) ==
    LET n == Len(s)
        bij == {f \in [1..n -> 1..n] : \A i, j \in 1..n : f[i] = f[j] => i = j}
    IN  {[i \in 1..n |-> s[f[i]]] : f \in bij}

\* Lines of ls that share a timestamp are equal lines.
TiedLinesEqual(ls) ==
    \A i, j \in 1..Len(ls) : ls[i].time = ls[j].time => ls[i] = ls[j]

\* C8 as stated: every permutation of the aggregate run returns sorts back
\* to the aggregate.
C8_Original ==
    (Returned /\ mode = "run") =>
        \A p \in Reorderings(Aggregate) : sort(p) = Aggregate

\* C8, amended: when the lines of the aggregate that share a timestamp are
\* equal lines (so also when all timestamps differ), every permutation of the
\* aggregate run returns sorts back to the aggregate.
C8_ResortReproduces ==
    (Returned /\ mode = "run" /\ TiedLinesEqual(Aggregate)) =>
        \A p \in Reorderings(Aggregate) : sort(p) = Aggregate

\* A run of three lines, two of them equal stdout lines of one instant and
\* the third a stderr line captured before them.
C8_Witness ==
    /\ Returned
    /\ mode = "run"
    /\ TiedLinesEqual(Aggregate)
    /\ Len(Aggregate) = 3
    /\ Aggregate[1].printed_to = "Stderr"
    /\ Aggregate[2] = Aggregate[3]
    /\ Aggregate[2].printed_to = "Stdout"

\* C9: in the callback modes neither caller-supplied function waits for the
\* other: a function that reads takes its next line as soon as its pipe
\* holds one, and returns as soon as its stream has ended, in whatever state
\* the other function is; and the call returns only after both have returned.
C9_FuncsIndependent ==
    mode # "run" =>
        /\ (outPc = "running" /\ stdout_func.drains /\ outPipe # <<>>)
              => ENABLED stdout_func_line
        /\ (errPc = "running" /\ stderr_func.drains /\ errPipe # <<>>)
              => ENABLED stderr_func_line
        /\ (outPc = "running" /\ outPipe = <<>> /\ ChildGone)
              => ENABLED stdout_func_return
        /\ (errPc = "running" /\ errPipe = <<>> /\ ChildGone)
              => ENABLED stderr_func_return
        /\ Returned => (outPc = "done" /\ errPc = "done")

\* stdout_func has handled its whole stream and returned while stderr_func,
\* whose pipe holds a line, has not taken any line yet.
C9_Witness ==
    /\ mode = "run_funcs"
    /\ outPc = "done"
    /\ stdout_func.drains /\ stderr_func.drains
    /\ EffectsOf("stdout") = Len(WroteTo("Stdout"))
    /\ EffectsOf("stdout") >= 1
    /\ errPc = "running"
    /\ errPipe # <<>>
    /\ EffectsOf("stderr") = 0

\* C11: every CmdOutput, of any of the three entry points, has
\* end_time >= start_time and duration = end_time - start_time; start_time is
\* the instant read before the spawn and end_time the one read after wait.
C11_Timing ==
    Returned =>
        /\ result.val.end_time >= result.val.start_time
        /\ result.val.duration = result.val.end_time - result.val.start_time
        /\ result.val.duration >= 0
        /\ result.val.start_time = start
        /\ result.val.end_time = end_time
        /\ reaped

\* A call that returned a CmdOutput with a duration that is not zero.
C11_Witness ==
    /\ Returned
    /\ mode = "run_funcs_with_lines"
    /\ result.val.start_time = 1
    /\ result.val.duration = 2

\* C12 as stated: once a reader has read a line that cannot be decoded, no
\* CmdOutput is returned, in any mode.
C12_Original == readFailed => ~Returned

\* C12, amended: a reader thread that panics on a line it cannot decode
\* (always in run; in the callback modes when the caller's function unwraps
\* the line) makes the call fail: the caller gets to the join of that thread
\* and no further, and no CmdOutput is returned, so none with a partial list
\* of lines. A call that has ended has either returned a CmdOutput or
\* panicked without one.
C12_ReadFailureFails ==
    /\ (outPc = "panicked" \/ errPc = "panicked") => ~Returned
    /\ outPc = "panicked" => pc \in {"spawn_stderr", "wait", "join_stdout", "panicked"}
    /\ errPc = "panicked" =>
          pc \in {"wait", "join_stdout", "join_stderr", "panicked"}
    /\ (readFailed /\ (mode = "run" \/ (stdout_func.unwraps /\ stderr_func.unwraps)))
          => ~Returned
    /\ pc = "done" <=> Returned
    /\ pc = "panicked" => (~Returned /\ ~ENABLED Caller)

\* A run that panicked at the join of stderr_thread, which had failed on a
\* line after stdout_thread had returned a line of its own.
C12_Witness ==
    /\ mode = "run"
    /\ pc = "panicked"
    /\ errPc = "panicked"
    /\ outPc = "done"
    /\ outLines # <<>>
    /\ ~Returned

\* C13: when the spawn fails the call fails at once, in every mode: the
\* caller has panicked, no CmdOutput is returned, neither reader thread has
\* been started, neither caller-supplied function has been invoked, and
\* nothing more happens (the spawn is not tried again).
C13_SpawnFailure ==
    (childState = "unspawned" /\ pc # "start") =>
        /\ pc = "panicked"
        /\ ~Returned
        /\ outPc = "unstarted"
        /\ errPc = "unstarted"
        /\ calls = [stdout |-> 0, stderr |-> 0]
        /\ effects = <<>>
        /\ ~ENABLED Next

\* A run_funcs call whose spawn failed.
C13_Witness ==
    /\ mode = "run_funcs"
    /\ childState = "unspawned"
    /\ pc = "panicked"
    /\ start = 1
    /\ prog # <<>>

\* C14: in run and in run_funcs_with_lines the caller is at the sort of the
\* concatenated lines only after stdout_thread and stderr_thread have
\* finished and child.wait() has returned.
C14_MergeAfterAll ==
    (mode # "run_funcs" /\ pc = "sort") =>
        /\ outPc = "done"
        /\ errPc = "done"
        /\ reaped

\* C15: in each entry point both reader threads have been started when the
\* caller blocks, and what the caller blocks on first is child.wait(): it is
\* at a join only after the wait has returned, so that entering the wait
\* never needs a reader to have finished.
C15_WaitBeforeJoin ==
    /\ pc \in {"wait", "join_stdout", "join_stderr"} =>
          (outPc # "unstarted" /\ errPc # "unstarted")
    /\ pc \in {"join_stdout", "join_stderr"} => reaped

\* The number of places of ls that hold the line l.
Count(ls, l) == Cardinality({i \in 1..Len(ls) : ls[i] = l})

\* The lines returned by stdout_func followed by those returned by stderr_func.
FuncLines == outLines \o errLines

\* C16: the lines of a result of run_funcs_with_lines are a permutation of
\* the lines stdout_func returned followed by the lines stderr_func returned
\* (every line occurs as often in the one as in the other, with the origin,
\* time and content the function gave it), in non-decreasing order of time.
C16_PermutationOfFuncLines ==
    (Returned /\ mode = "run_funcs_with_lines") =>
        /\ Len(Aggregate) = Len(FuncLines)
        /\ \A i \in 1..Len(FuncLines) :
              Count(Aggregate, FuncLines[i]) = Count(FuncLines, FuncLines[i])
        /\ NonDecreasing(Aggregate)

\* A result of run_funcs_with_lines where stderr_func tags its lines Stdout,
\* and a line it returned comes before a line stdout_func returned.
C16_Witness ==
    /\ Returned /\ mode = "run_funcs_with_lines"
    /\ stderr_func.tag = "Stdout"
    /\ Len(outLines) >= 1 /\ Len(errLines) >= 1
    /\ errLines[1].time < outLines[1].time
    /\ Aggregate[1] = errLines[1]
    /\ \A i \in 1..Len(Aggregate) : Aggregate[i].printed_to = "Stdout"

\* The places of ls whose line has the origin t.
PlacesOf(ls, t) == {i \in 1..Len(ls) : ls[i].printed_to = t}

\* The place in ls of the k-th line that has the origin t.
PlaceOfKth(ls, t, k) ==
    CHOOSE i \in PlacesOf(ls, t) : Cardinality({j \in PlacesOf(ls, t) : j <= i}) = k

\* view holds exactly the lines of ls that have the origin t, in the order
\* they have in ls.
IsViewOf(view, ls, t) ==
    /\ Len(view) = Cardinality(PlacesOf(ls, t))
    /\ \A k \in 1..Len(view) : view[k] = ls[PlaceOfKth(ls, t, k)]

\* C17: for a result that has lines, stdout() holds exactly the lines of
\* origin Stdout and stderr() exactly those of origin Stderr, each in the
\* order of lines(), and the lengths of the two add up to that of lines().
C17_ViewsPartition ==
    (Returned /\ CmdLines(result.val).some) =>
        LET all == CmdLines(result.val).val
            out == CmdStdout(result.val)
            err == CmdStderr(result.val)
        IN  /\ out.some /\ err.some
            /\ IsViewOf(out.val, all, "Stdout")
            /\ IsViewOf(err.val, all, "Stderr")
            /\ Len(out.val) + Len(err.val) = Len(all)

\* A result whose lines are of origin Stdout, Stderr, Stdout in this order.
C17_Witness ==
    /\ Returned /\ CmdLines(result.val).some
    /\ Len(Aggregate) = 3
    /\ Aggregate[1].printed_to = "Stdout"
    /\ Aggregate[2].printed_to = "Stderr"
    /\ Aggregate[3].printed_to = "Stdout"
    /\ CmdStdout(result.val).val = <<Aggregate[1], Aggregate[3]>>
    /\ CmdStderr(result.val).val = <<Aggregate[2]>>

\* C18 as stated: when run_funcs has returned, each function has been called
\* as many times as the child wrote lines to its stream.
C18_Original ==
    (Returned /\ mode = "run_funcs") =>
        /\ calls.stdout = Len(WroteTo("Stdout"))
        /\ calls.stderr = Len(WroteTo("Stderr"))

\* C18: in run_funcs each function is called exactly once, when its thread
\* is started, with the lines of its stream as one iterator, however many
\* lines the child writes; by the return of run_funcs a function that reads
\* the iterator to its end has had one side effect per line written to the
\* stream, and a function that does not read it has had none.
C18_InvokedOnce ==
    mode = "run_funcs" =>
        /\ calls.stdout = IF outPc = "unstarted" THEN 0 ELSE 1
        /\ calls.stderr = IF errPc = "unstarted" THEN 0 ELSE 1
        /\ Returned =>
              /\ EffectsOf("stdout") =
                    IF stdout_func.drains THEN Len(WroteTo("Stdout")) ELSE 0
              /\ EffectsOf("stderr") =
                    IF stderr_func.drains THEN Len(WroteTo("Stderr")) ELSE 0

\* A run_funcs call that returned after the child wrote two lines to stdout
\* and one to stderr, each function called once and having read every line.
C18_Witness ==
    /\ Returned /\ mode = "run_funcs"
    /\ Len(WroteTo("Stdout")) = 2 /\ Len(WroteTo("Stderr")) = 1
    /\ calls = [stdout |-> 1, stderr |-> 1]
    /\ EffectsOf("stdout") = 2 /\ EffectsOf("stderr") = 1

\* C19 as stated: every line of a result of run has its time between
\* start_time and end_time.
C19_Original ==
    (Returned /\ mode = "run") =>
        \A i \in 1..Len(Aggregate) :
            /\ result.val.start_time <= Aggregate[i].time
            /\ Aggregate[i].time <= result.val.end_time

\* C19: every line of a result of run has a time that is not before
\* start_time; a line can have a time after end_time, but never one that is
\* after the time of the return.
C19_NotBeforeStart ==
    (Returned /\ mode = "run") =>
        \A i \in 1..Len(Aggregate) :
            /\ result.val.start_time <= Aggregate[i].time
            /\ Aggregate[i].time <= clock

\* A result of run with a line read before the end of the wait and, after
\* it, a line read after the end of the wait.
C19_Witness ==
    /\ Returned /\ mode = "run"
    /\ Len(Aggregate) >= 2
    /\ result.val.start_time < result.val.end_time
    /\ Aggregate[1].time < result.val.end_time
    /\ Aggregate[Len(Aggregate)].time > result.val.end_time

====
